---- MODULE Spec2Model ----
(***************************************************************************)
(* A model of shannon/continuous.py: entropy, symbols_to_prob, mi and      *)
(* cond_entropy.  Every public function is a pure function of its          *)
(* arguments, so the state is one call (the arguments it was given) and    *)
(* its outcome: the value returned or the exception raised, with the       *)
(* source line that raises it.                                             *)
(*                                                                         *)
(* Numbers.  Sample values are small integers and all arithmetic is exact. *)
(* A float the code returns is kept in a closed form that determines it:   *)
(*   gaussian   0.5*ln((2*pi*e)^c * num/den)                               *)
(*   nearest-n. (1/(2n))*log2(num/den) + SUM_k coef[k]*log2(n*A_k/k)       *)
(*                                     + (SUM_k coef[k])*log2(e)*gamma     *)
(*   bin        (s*ProbBits - log2(pw)) / 2^ProbBits                       *)
(* together with -inf, +inf and nan.  Probabilities are integer multiples  *)
(* of 2^-ProbBits (exact in binary floating point), and so is errorVal.    *)
(***************************************************************************)
EXTENDS Integers, Sequences, FiniteSets

VARIABLES pc, call, result

vars == <<pc, call, result>>

(* ------------------------------ bounds --------------------------------- *)
\* rows of a sample array
MaxN == 2
\* columns of a sample matrix given to entropy and symbols_to_prob
MaxD == 2
\* columns of each of x and y given to mi and cond_entropy
MaxDxy == 1
\* largest bin count of a bin specification
MaxBins == 2
\* entries of a prob array
MaxProbLen == 2
\* probabilities and errorVal are multiples of 2^-ProbBits
ProbBits == 2
\* errorVal ranges over 0 .. MaxErr (in units of 2^-ProbBits)
MaxErr == 1

\* the values a sample may take
Vals == {0, 1}

(* ------------------------------ helpers -------------------------------- *)
RECURSIVE Pow(_, _)
Pow(b, e) == IF e = 0 THEN 1 ELSE b * Pow(b, e - 1)

RECURSIVE SeqSum(_)
SeqSum(s) == IF s = <<>> THEN 0 ELSE Head(s) + SeqSum(Tail(s))

RECURSIVE SeqProd(_)
SeqProd(s) == IF s = <<>> THEN 1 ELSE Head(s) * SeqProd(Tail(s))

Abs(v) == IF v < 0 THEN -v ELSE v

SetMin(S) == CHOOSE v \in S : \A w \in S : v <= w

SetMax(S) == CHOOSE v \in S : \A w \in S : v >= w

(* --------------------------- python values ----------------------------- *)
\* an exception of class exc raised by the statement at source line `line`
Raise(exc, line) == [t |-> "raise", exc |-> exc, line |-> line]

Return(v) == [t |-> "return", v |-> v]

NoneVal == [f |-> "None"]

NegInf == [f |-> "-inf"]

PosInf == [f |-> "+inf"]

NaN == [f |-> "nan"]

\* data=None
NoData == [nd |-> 0, rows |-> <<>>]

\* an ndarray of shape (Len(rows), Len(rows[1]))
Matrix(rows) == [nd |-> 2, rows |-> rows]

\* an ndarray of shape (Len(rows),); its i-th element is rows[i][1]
Vector(rows) == [nd |-> 1, rows |-> rows]

\* prob=None
NoProb == [kind |-> "None", p |-> <<>>]

\* bins=None
NoBins == [none |-> TRUE, b |-> <<>>]

BinList(b) == [none |-> FALSE, b |-> b]

\* data.shape[0]
Shape0(data) == Len(data.rows)

\* data.shape[1]
Shape1(data) == Len(data.rows[1])

\* data.any()
DataAny(data) == \E i \in 1..Len(data.rows) : \E j \in 1..Len(data.rows[i]) : data.rows[i][j] # 0

(* ------------------------ entropy: argument checks --------------------- *)
\* abs(prob.sum() - 1) > errorVal, in units of 2^-ProbBits
ProbSumBadGe(prob, errorVal) == Abs(SeqSum(prob.p) - Pow(2, ProbBits)) >= errorVal

ProbSumBad(prob, errorVal) == Abs(SeqSum(prob.p) - Pow(2, ProbBits)) > errorVal

Pass == [t |-> "pass"]

\* the same checks with the type check of prob moved in front
ArgCheckTypeFirst(data, prob, errorVal) ==
    IF prob.kind # "None" /\ prob.kind # "ndarray" THEN Raise("TypeError", 47)
    ELSE IF prob.kind = "None" /\ data.nd = 0 THEN Raise("ValueError", 41)
    ELSE IF prob.kind # "None" /\ data.nd # 0 THEN Raise("ValueError", 44)
    ELSE IF prob.kind # "None" /\ ProbSumBad(prob, errorVal) THEN Raise("ValueError", 50)
    ELSE Pass

ArgCheck(data, prob, errorVal) ==
    IF prob.kind = "None" /\ data.nd = 0 THEN Raise("ValueError", 41)
    ELSE IF prob.kind # "None" /\ data.nd # 0 THEN Raise("ValueError", 44)
    ELSE IF prob.kind # "None" /\ prob.kind # "ndarray" THEN Raise("TypeError", 47)
    ELSE IF prob.kind # "None" /\ ProbSumBad(prob, errorVal) THEN Raise("ValueError", 50)
    ELSE Pass

(* ------------------------ nearest-neighbors ---------------------------- *)
\* squared euclidean distance between rows i and j
Dist2(x, i, j) ==
    SeqSum([c \in 1..Len(x.rows[i]) |-> (x.rows[i][c] - x.rows[j][c]) * (x.rows[i][c] - x.rows[j][c])])

\* getrho, with every distance squared: the code's D + max(D)*eye has max(D)
\* on its diagonal, and squareform(pdist(x)) of a single sample is the 1 x 1
\* zero matrix
getrho(x) ==
    LET n == Shape0(x)
        mx == SetMax({Dist2(x, i, j) : i \in 1..n, j \in 1..n})
        D2(i, j) == IF i = j THEN mx ELSE Dist2(x, i, j)
    IN  [i \in 1..n |-> SetMin({D2(j, i) : j \in 1..n})]

\* the float k*mean(log2(rho)) + log2(n*Ak/k) + log2(e)*euler_gamma
FinNN(k, n, rho2) ==
    [f |-> "fin", m |-> "nn", n |-> n,
     coef |-> [j \in 1..(MaxD + 2 * MaxDxy) |-> IF j = k THEN 1 ELSE 0],
     num |-> Pow(SeqProd(rho2), k), den |-> 1]

\* bound: line 52 took its branch, so num_samples and num_dimensions are
\* assigned; num_dimensions is data.shape[1] of a matrix
EntropyNN(data, bound) ==
    IF data.nd = 0 THEN Raise("ValueError", 75)
    ELSE IF data.nd > 1 /\ ~bound THEN Raise("UnboundLocalError", 78)
    ELSE LET k == IF data.nd > 1 THEN Shape1(data) ELSE 1
             rho2 == getrho(data)
         IN  IF ~bound THEN Raise("UnboundLocalError", 86)
             ELSE IF \E i \in 1..Len(rho2) : rho2[i] = 0 THEN Return(NegInf)
             ELSE Return(FinNN(k, Shape0(data), rho2))

(* ------------------------------ gaussian ------------------------------- *)
\* data.dot(data.transpose()) of a matrix
Gram(data) ==
    LET n == Shape0(data)
    IN  [i \in 1..n |-> [j \in 1..n |->
            SeqSum([c \in 1..Shape1(data) |-> data.rows[i][c] * data.rows[j][c]])]]

\* M without its first row and its j-th column
Minor(M, j) ==
    [r \in 1..(Len(M) - 1) |-> [c \in 1..(Len(M) - 1) |->
        IF c < j THEN M[r + 1][c] ELSE M[r + 1][c + 1]]]

RECURSIVE Det(_)
Det(M) ==
    IF Len(M) = 1 THEN M[1][1]
    ELSE SeqSum([j \in 1..Len(M) |->
            (IF j % 2 = 1 THEN 1 ELSE -1) * M[1][j] * Det(Minor(M, j))])

\* the float 0.5*log(normalization*detCov)
FinG(d, detCov) == [f |-> "fin", m |-> "gaussian", c |-> d, num |-> detCov, den |-> 1]

EntropyGaussian(data, bound) ==
    IF data.nd = 0 THEN Raise("ValueError", 92)
    \* det of the 0-d array a 1-d data.dot(data.transpose()) yields
    ELSE IF data.nd = 1 THEN Raise("LinAlgError", 94)
    ELSE LET detCov == Det(Gram(data))
         IN  IF ~bound THEN Raise("UnboundLocalError", 95)
             ELSE IF detCov = 0 THEN Return(NegInf)
             ELSE Return(FinG(Shape1(data), detCov))

(* --------------------------- symbols_to_prob --------------------------- *)
\* data.shape[0], taken for the dimensionality
DimensionalityRows(data) == Shape0(data)

\* dimensionality = data.shape[1]
Dimensionality(data) == Shape1(data)

\* the 1-based bin of value v among nb equal-width bins over [min, max] of
\* column c (numpy widens an empty range by 0.5 on both sides; the last bin
\* is closed on the right)
BinOf(data, c, nb, v) ==
    LET col == {data.rows[i][c] : i \in 1..Shape0(data)}
        lo == SetMin(col)
        hi == SetMax(col)
    IN  IF lo = hi THEN nb \div 2 + 1
        ELSE IF v = hi THEN nb
        ELSE ((v - lo) * nb) \div (hi - lo) + 1

\* the cells of a histogram with b[c] bins in dimension c
Cells(b) ==
    {cell \in [1..Len(b) -> 1..SetMax({b[c] : c \in 1..Len(b)})] :
        \A c \in 1..Len(b) : cell[c] <= b[c]}

\* the histogram np.histogramdd builds before it normalises: the number of
\* samples in every cell
HistogramCounts(data, b) ==
    LET cellOf(i) == [c \in 1..Len(b) |-> BinOf(data, c, b[c], data.rows[i][c])]
    IN  [cell \in Cells(b) |-> Cardinality({i \in 1..Shape0(data) : cellOf(i) = cell})]

\* max - min of column c, 1 for the widened empty range
RangeOf(data, c) ==
    LET col == {data.rows[i][c] : i \in 1..Shape0(data)}
    IN  IF SetMin(col) = SetMax(col) THEN 1 ELSE SetMax(col) - SetMin(col)

RECURSIVE Gcd(_, _)
Gcd(a, c) == IF c = 0 THEN a ELSE Gcd(c, a % c)

\* the rational n / d in lowest terms (d > 0)
Frac(n, d) == [num |-> n \div Gcd(n, d), den |-> d \div Gcd(n, d)]

\* np.histogramdd(data, bins, normed=True)[0]: the density of every cell,
\* count / (N * cell volume), the volume of a cell being the product over the
\* dimensions of range / bins.  Densities sum to 1 only when that volume is 1.
Histogram(data, b) ==
    LET counts == HistogramCounts(data, b)
        nbins == SeqProd(b)
        ranges == SeqProd([c \in 1..Len(b) |-> RangeOf(data, c)])
    IN  [cell \in Cells(b) |-> Frac(counts[cell] * nbins, Shape0(data) * ranges)]

\* shape of np.asarray(edges), edges the list of the D edge arrays, the c-th
\* of length b[c] + 1: a (D, nb + 1) array when all lengths agree, an object
\* array of shape (D,) otherwise
EdgesShape(b) ==
    IF \A c \in 1..Len(b) : b[c] = b[1] THEN <<Len(b), b[1] + 1>> ELSE <<Len(b)>>

\* numpy broadcasting of two shapes, aligned from the right
Broadcastable(a, e) ==
    \A i \in 1..(IF Len(a) < Len(e) THEN Len(a) ELSE Len(e)) :
        LET u == a[Len(a) + 1 - i]
            w == e[Len(e) + 1 - i]
        IN  u = w \/ u = 1 \/ w = 1

BroadcastShape(a, e) ==
    LET n == IF Len(a) < Len(e) THEN Len(e) ELSE Len(a)
        at(s, i) == IF i + Len(s) - n >= 1 THEN s[i + Len(s) - n] ELSE 1
    IN  [i \in 1..n |-> IF at(a, i) < at(e, i) THEN at(e, i) ELSE at(a, i)]

\* symbols_to_prob(data, bins); normed tells whether the installed numpy's
\* histogramdd still accepts the keyword normed.  prob is the tuple (H, edges)
\* histogramdd returns, so sum(prob) is 0 + H + edges: H broadcast against the
\* array of the edges, or a broadcasting error.  That array has at least two
\* elements, and the truth value of such an array is a ValueError.
symbols_to_prob(data, bins, normed) ==
    IF data.nd < 2 THEN Raise("IndexError", 132)
    ELSE IF bins.none THEN Raise("TypeError", 133)
    ELSE IF Len(bins.b) # Dimensionality(data) THEN Raise("ValueError", 134)
    ELSE IF ~normed THEN Raise("TypeError", 136)
    ELSE IF ~Broadcastable(bins.b, EdgesShape(bins.b)) THEN Raise("ValueError", 138)
    ELSE IF SeqProd(BroadcastShape(bins.b, EdgesShape(bins.b))) > 1
         THEN Raise("ValueError", 138)
    \* a sum of a single element would pass on to lines 138-141
    ELSE Return([f |-> "histogramdd", H |-> Histogram(data, bins.b)])

(* -------------------------------- bin ---------------------------------- *)
\* -float(np.sum(prob * logProb)) for prob in units of 2^-ProbBits: entries
\* equal to 0 have their log2 of -inf replaced by 0; the log2 of a negative
\* entry is nan.  s is the sum of the positive entries a and pw the product of
\* a^a over them: the float is (s*ProbBits - log2(pw)) / 2^ProbBits.
BinEntropy(p) ==
    IF \E i \in 1..Len(p) : p[i] < 0 THEN NaN
    ELSE [f |-> "fin", m |-> "bin",
          s |-> SeqSum(p),
          pw |-> SeqProd([i \in 1..Len(p) |-> Pow(p[i], p[i])])]

EntropyBin(data, prob, bins, normed) ==
    IF prob.kind = "None" /\ bins.none THEN Raise("ValueError", 104)
    ELSE LET r == IF data.nd # 0 THEN symbols_to_prob(data, bins, normed)
                  ELSE Return(prob.p)
         IN  IF r.t = "raise" THEN r ELSE Return(BinEntropy(r.v))

(* ------------------------------ entropy -------------------------------- *)
entropy(data, prob, method, bins, errorVal, normed) ==
    LET chk == ArgCheck(data, prob, errorVal)
    IN  IF chk.t = "raise" THEN chk
        \* data.any() with data=None
        ELSE IF data.nd = 0 THEN Raise("AttributeError", 52)
        ELSE LET bound == DataAny(data)
             IN  CASE method = "nearest-neighbors" -> EntropyNN(data, bound)
                   [] method = "gaussian" -> EntropyGaussian(data, bound)
                   [] method = "bin" -> EntropyBin(data, prob, bins, normed)
                   [] OTHER -> Return(NoneVal)

(* -------------------------- float arithmetic --------------------------- *)
\* -b
FNeg(b) ==
    CASE b.f = "-inf" -> PosInf
      [] b.f = "+inf" -> NegInf
      [] b.f = "nan" -> NaN
      [] b.f = "fin" /\ b.m = "gaussian" ->
            [f |-> "fin", m |-> "gaussian", c |-> -b.c, num |-> b.den, den |-> b.num]
      [] b.f = "fin" /\ b.m = "nn" ->
            [f |-> "fin", m |-> "nn", n |-> b.n,
             coef |-> [j \in DOMAIN b.coef |-> -b.coef[j]],
             num |-> b.den, den |-> b.num]

\* a + b (IEEE 754: opposite infinities add to nan)
FAdd(a, b) ==
    CASE a.f = "nan" \/ b.f = "nan" -> NaN
      [] a.f = "-inf" /\ b.f = "+inf" -> NaN
      [] a.f = "+inf" /\ b.f = "-inf" -> NaN
      [] a.f = "-inf" \/ b.f = "-inf" -> NegInf
      [] a.f = "+inf" \/ b.f = "+inf" -> PosInf
      [] a.m = "gaussian" ->
            [f |-> "fin", m |-> "gaussian", c |-> a.c + b.c,
             num |-> a.num * b.num, den |-> a.den * b.den]
      [] a.m = "nn" ->
            [f |-> "fin", m |-> "nn", n |-> a.n,
             coef |-> [j \in DOMAIN a.coef |-> a.coef[j] + b.coef[j]],
             num |-> a.num * b.num, den |-> a.den * b.den]

\* a - b
FSub(a, b) == FAdd(a, FNeg(b))

(* --------------------------------- mi ---------------------------------- *)
\* np.expand_dims(a, 1) of a 1-d array
ExpandDims(a) == [nd |-> 2, rows |-> a.rows]

\* lines 176-183 with the handling of y left out
NormalizeXOnly(x, y) == <<IF x.nd = 1 THEN ExpandDims(x) ELSE x, y>>

\* lines 176-183: both x and y, when 1-d, become single-column matrices
Normalize(x, y) ==
    <<IF x.nd = 1 THEN ExpandDims(x) ELSE x, IF y.nd = 1 THEN ExpandDims(y) ELSE y>>

\* np.concatenate([x, y], axis=1) of two matrices with the same number of rows
Concatenate(x, y) == [nd |-> 2, rows |-> [i \in 1..Shape0(x) |-> x.rows[i] \o y.rows[i]]]

\* the exception of np.concatenate([x, y], axis=1) when x or y is 1-d: the
\* axis is checked against the dimensions of the first array, and only then
\* are the arrays required to have the same number of dimensions
ConcatenateError(x, y, line) ==
    Raise(IF x.nd = 1 THEN "AxisError" ELSE "ValueError", line)

mi(x, y, bins_x, bins_y, bins_xy, method, normed) ==
    LET xy == Normalize(x, y)
        HX == entropy(xy[1], NoProb, method, bins_x, 0, normed)
        HY == entropy(xy[2], NoProb, method, bins_y, 0, normed)
        HXY == entropy(Concatenate(xy[1], xy[2]), NoProb, method, bins_xy, 0, normed)
    IN  IF HX.t = "raise" THEN HX
        ELSE IF HY.t = "raise" THEN HY
        ELSE IF xy[1].nd # 2 \/ xy[2].nd # 2 THEN ConcatenateError(xy[1], xy[2], 187)
        ELSE IF HXY.t = "raise" THEN HXY
        \* None + None
        ELSE IF HX.v = NoneVal \/ HY.v = NoneVal \/ HXY.v = NoneVal
             THEN Raise("TypeError", 189)
        ELSE Return(FSub(FAdd(HX.v, HY.v), HXY.v))

(* ---------------------------- cond_entropy ----------------------------- *)
cond_entropy(x, y, bins_y, bins_xy, method, normed) ==
    LET HXY == entropy(Concatenate(x, y), NoProb, method, bins_xy, 0, normed)
        HY == entropy(y, NoProb, method, bins_y, 0, normed)
    IN  IF x.nd # 2 \/ y.nd # 2 THEN ConcatenateError(x, y, 199)
        ELSE IF HXY.t = "raise" THEN HXY
        ELSE IF HY.t = "raise" THEN HY
        \* None - None
        ELSE IF HXY.v = NoneVal \/ HY.v = NoneVal THEN Raise("TypeError", 202)
        ELSE Return(FSub(HXY.v, HY.v))

(* ------------------------------ arguments ------------------------------ *)
Methods == {"nearest-neighbors", "gaussian", "bin", "histogram"}

\* the n x d sample matrices
Matrices(n, d) == {Matrix(r) : r \in [1..n -> [1..d -> Vals]]}

\* the 1-d sample arrays of length n
Vectors(n) == {Vector(r) : r \in [1..n -> [1..1 -> Vals]]}

\* sample arrays of n rows: matrices of up to d columns and 1-d arrays
Arrays(n, d) == UNION {Matrices(n, c) : c \in 1..d} \cup Vectors(n)

Samples == UNION {Arrays(n, MaxD) : n \in 1..MaxN}

\* a bin count for each of d dimensions
BinSpecs(d) == {BinList(b) : b \in [1..d -> 1..MaxBins]}

AllBins == {NoBins} \cup UNION {BinSpecs(d) : d \in 1..MaxD}

\* the same bin count b in each of d dimensions
Uniform(d, b) == BinList([c \in 1..d |-> b])

\* prob: an ndarray, or a list (not an ndarray), of multiples of 2^-ProbBits
ProbEntries == -1..(Pow(2, ProbBits) + 1)

Probs(len) ==
    {[kind |-> k, p |-> p] : k \in {"ndarray", "list"},
                             p \in UNION {[1..l -> ProbEntries] : l \in 1..len}}

ErrorVals == 0..MaxErr

\* x and y of mi and cond_entropy: the same number of rows
Pairs == UNION {Arrays(n, MaxDxy) \X Arrays(n, MaxDxy) : n \in 1..MaxN}

\* columns of x once a matrix
Cols(x) == IF x.nd = 1 THEN 1 ELSE Shape1(x)

\* bin specifications of a call with method 'bin': none, or count bx in every
\* dimension of x and count MaxBins + 1 - bx in every dimension of y
PairBins(x, y) ==
    {[x |-> NoBins, y |-> NoBins, xy |-> NoBins]}
    \cup
    {[x |-> Uniform(Cols(x), bx), y |-> Uniform(Cols(y), MaxBins + 1 - bx),
      xy |-> BinList(Uniform(Cols(x), bx).b \o Uniform(Cols(y), MaxBins + 1 - bx).b)] :
        bx \in 1..MaxBins}

(* ------------------------------- actions ------------------------------- *)
NoCall == [op |-> "none"]

NoResult == [t |-> "none"]

Init == pc = "idle" /\ call = NoCall /\ result = NoResult

\* the keyword normed reaches numpy only through method 'bin'
NormedChoices(method) == IF method = "bin" THEN BOOLEAN ELSE {TRUE}

DoEntropy(data, prob, method, bins, errorVal, normed) ==
    /\ call' = [op |-> "entropy", data |-> data, prob |-> prob, method |-> method,
                bins |-> bins, errorVal |-> errorVal, normed |-> normed]
    /\ result' = entropy(data, prob, method, bins, errorVal, normed)
    /\ pc' = "done"

\* entropy(data=.., prob=.., method=.., bins=.., errorVal=..): data alone,
\* prob alone, neither, and both
CallEntropy ==
    /\ pc = "idle"
    /\ \/ \E d \in Samples : \E m \in Methods : \E b \in AllBins :
            \E normed \in NormedChoices(m) :
                /\ m # "bin" => b = NoBins
                /\ DoEntropy(d, NoProb, m, b, 0, normed)
       \/ \E p \in Probs(MaxProbLen) : \E m \in Methods :
            \E b \in {NoBins, Uniform(1, 1)} : \E e \in ErrorVals :
                DoEntropy(NoData, p, m, b, e, TRUE)
       \/ \E m \in Methods : \E b \in AllBins : \E e \in ErrorVals :
                DoEntropy(NoData, NoProb, m, b, e, TRUE)
       \/ \E d \in Arrays(1, MaxD) : \E p \in Probs(1) : \E m \in Methods :
            \E b \in {NoBins, Uniform(1, 1)} : \E e \in ErrorVals :
                DoEntropy(d, p, m, b, e, TRUE)

CallSymbolsToProb ==
    /\ pc = "idle"
    /\ \E d \in Samples : \E b \in AllBins : \E normed \in BOOLEAN :
        /\ call' = [op |-> "symbols_to_prob", data |-> d, bins |-> b, normed |-> normed]
        /\ result' = symbols_to_prob(d, b, normed)
    /\ pc' = "done"

CallMi ==
    /\ pc = "idle"
    /\ \E xy \in Pairs : \E m \in Methods : \E b \in PairBins(xy[1], xy[2]) :
        \E normed \in NormedChoices(m) :
            /\ m # "bin" => b.x = NoBins
            /\ call' = [op |-> "mi", x |-> xy[1], y |-> xy[2], bins |-> b,
                        method |-> m, normed |-> normed]
            /\ result' = mi(xy[1], xy[2], b.x, b.y, b.xy, m, normed)
    /\ pc' = "done"

CallCondEntropy ==
    /\ pc = "idle"
    /\ \E xy \in Pairs : \E m \in Methods : \E b \in PairBins(xy[1], xy[2]) :
        \E normed \in NormedChoices(m) :
            /\ m # "bin" => b.x = NoBins
            /\ call' = [op |-> "cond_entropy", x |-> xy[1], y |-> xy[2], bins |-> b,
                        method |-> m, normed |-> normed]
            /\ result' = cond_entropy(xy[1], xy[2], b.y, b.xy, m, normed)
    /\ pc' = "done"

\* the caller takes the outcome; the next call starts from nothing
Finish ==
    /\ pc = "done"
    /\ pc' = "idle"
    /\ call' = NoCall
    /\ result' = NoResult

Next == CallEntropy \/ CallSymbolsToProb \/ CallMi \/ CallCondEntropy \/ Finish

Spec == Init /\ [][Next]_vars

(* ------------------------------ properties ----------------------------- *)
\* prob is an ndarray of non-negative reals
NonNegArray(prob) == prob.kind = "ndarray" /\ \A i \in 1..Len(prob.p) : prob.p[i] >= 0

\* abs(sum(prob) - 1), in units of 2^-ProbBits
Deviation(prob) == Abs(SeqSum(prob.p) - Pow(2, ProbBits))

\* two floats are the same real number, the same infinity, or both nan
SameFloat(a, b) ==
    /\ a.f = b.f
    /\ a.f = "fin" =>
        /\ a.m = b.m
        /\ a.m = "gaussian" => a.c = b.c /\ a.num * b.den = b.num * a.den
        /\ a.m = "nn" => a.n = b.n /\ a.coef = b.coef /\ a.num * b.den = b.num * a.den
        /\ a.m = "bin" => a.s = b.s /\ a.pw = b.pw

\* two calls end the same way: both fail, or both return the same value
SameOutcome(r1, r2) ==
    \/ r1.t = "raise" /\ r2.t = "raise"
    \/ r1.t = "return" /\ r2.t = "return" /\ r1.v.f = r2.v.f /\ SameFloat(r1.v, r2.v)

\* bins_xy with the entries of the dx columns of x moved behind those of y
Reorder(bins_xy, dx, dy) ==
    IF bins_xy.none THEN NoBins
    ELSE BinList(SubSeq(bins_xy.b, dx + 1, dx + dy) \o SubSeq(bins_xy.b, 1, dx))

\* C1: entropy(prob=P, method='bin') of a valid probability array P returns
\* -sum(p*log2(p)), entries equal to 0 contributing 0, and does not fail; the
\* fair coin [0.5, 0.5] gives 1.0.
C1_BinEntropyOfProb ==
    (/\ call.op = "entropy"
     /\ call.data = NoData
     /\ NonNegArray(call.prob)
     /\ Deviation(call.prob) <= call.errorVal
     /\ call.method = "bin")
    => /\ result = Return(BinEntropy(call.prob.p))
       /\ (ProbBits = 2 /\ call.prob.p = <<2, 2>>) =>
             (result.v.f = "fin"
              /\ Pow(2, result.v.s * ProbBits) = result.v.pw * Pow(2, Pow(2, ProbBits)))

\* C2: entropy fails with the ValueError of line 41 when neither data nor prob
\* is given and with the ValueError of line 44 when both are, whatever the
\* method, bins, errorVal and the type or sum of prob.
C2_ExactlyOneOfDataProb ==
    call.op = "entropy" =>
        /\ (call.data = NoData /\ call.prob = NoProb) => result = Raise("ValueError", 41)
        /\ (call.data # NoData /\ call.prob # NoProb) => result = Raise("ValueError", 44)

\* both are given and prob is not even an ndarray: still the ValueError of line 44
C2_Witness ==
    /\ call.op = "entropy"
    /\ call.data # NoData
    /\ call.prob.kind = "list"
    /\ Deviation(call.prob) > call.errorVal
    /\ call.method = "bin"
    /\ result = Raise("ValueError", 44)

\* C3: with method 'nearest-neighbors' or 'gaussian' and only a valid prob,
\* entropy fails with the 'requires original data' ValueError of the branch.
C3_MissingData ==
    (/\ call.op = "entropy"
     /\ call.data = NoData
     /\ NonNegArray(call.prob)
     /\ Deviation(call.prob) <= call.errorVal
     /\ call.method \in {"nearest-neighbors", "gaussian"})
    => result = Raise("ValueError", IF call.method = "gaussian" THEN 92 ELSE 75)

\* C4: with samples and a method that is none of the three, entropy fails; it
\* returns nothing, None included.
C4_UnsupportedMethod ==
    (/\ call.op = "entropy"
     /\ call.data # NoData
     /\ call.prob = NoProb
     /\ call.method \notin {"nearest-neighbors", "gaussian", "bin"})
    => result.t = "raise"

\* C5 as stated: given prob alone, entropy fails with the TypeError if prob is
\* not an array of non-negative reals, and otherwise with the ValueError of the
\* sum check exactly when abs(sum(prob) - 1) > errorVal.
C5_ProbChecksNonNegative ==
    (call.op = "entropy" /\ call.data = NoData /\ call.prob # NoProb) =>
        IF ~NonNegArray(call.prob) THEN result = Raise("TypeError", 47)
        ELSE (result = Raise("ValueError", 50) <=> Deviation(call.prob) > call.errorVal)

\* C5 amended: given prob alone, entropy fails with the TypeError exactly when
\* prob is not an ndarray (the sign of its entries is not looked at), and
\* otherwise with the ValueError of the sum check exactly when
\* abs(sum(prob) - 1) > errorVal, a deviation equal to errorVal being accepted.
C5_ProbChecks ==
    (call.op = "entropy" /\ call.data = NoData /\ call.prob # NoProb) =>
        IF call.prob.kind # "ndarray" THEN result = Raise("TypeError", 47)
        ELSE (result = Raise("ValueError", 50) <=> Deviation(call.prob) > call.errorVal)

\* a deviation equal to a positive errorVal passes the sum check
C5_Witness ==
    /\ call.op = "entropy"
    /\ call.data = NoData
    /\ call.prob.kind = "ndarray"
    /\ call.errorVal > 0
    /\ Deviation(call.prob) = call.errorVal
    /\ result # Raise("ValueError", 50)

\* tol = 10e-5 is 1 / TolInv
TolInv == 10000

RECURSIVE FracSum(_, _)
\* the sum of the rationals h[c], c in S, in lowest terms
FracSum(h, S) ==
    IF S = {} THEN Frac(0, 1)
    ELSE LET c == CHOOSE c \in S : TRUE
             r == FracSum(h, S \ {c})
         IN  Frac(h[c].num * r.den + r.num * h[c].den, h[c].den * r.den)

\* abs(sum of the entries of h - 1) > tol
SumOffOne(h) ==
    LET t == FracSum(h, DOMAIN h) IN Abs(t.num - t.den) * TolInv > t.den

\* C6: symbols_to_prob with as many bin counts as the samples have columns,
\* whenever it returns, returns an array whose entries sum to within tol of 1;
\* and when the array it computed at line 136 does not sum to within tol of 1,
\* it fails with the ValueError of line 139 ('Probabilities should sum to 1').
C6_SumChecked ==
    (/\ call.op = "symbols_to_prob"
     /\ call.data.nd = 2
     /\ ~call.bins.none
     /\ Len(call.bins.b) = Shape1(call.data)
     /\ call.normed)
    => /\ result.t = "return" => ~SumOffOne(result.v.H)
       /\ SumOffOne(Histogram(call.data, call.bins.b)) => result = Raise("ValueError", 139)

\* C7: symbols_to_prob of an (N, D) matrix fails with the ValueError of line
\* 134 exactly when the number of bin specifications differs from D.
C7_DimensionMismatch ==
    (call.op = "symbols_to_prob" /\ call.data.nd = 2 /\ ~call.bins.none) =>
        (result = Raise("ValueError", 134) <=> Len(call.bins.b) # Shape1(call.data))

\* more rows than columns, one bin count for two columns
C7_Witness ==
    /\ call.op = "symbols_to_prob"
    /\ call.data.nd = 2
    /\ Shape1(call.data) = 2
    /\ ~call.bins.none
    /\ Len(call.bins.b) = 1
    /\ ~call.normed
    /\ result = Raise("ValueError", 134)

\* C8: mi(x, y) and mi(y, x), with bins_x and bins_y exchanged and bins_xy
\* reordered, end the same way: both fail or both return the same value.
C8_MiSymmetric ==
    call.op = "mi" =>
        SameOutcome(result,
                    mi(call.y, call.x, call.bins.y, call.bins.x,
                       Reorder(call.bins.xy, Cols(call.x), Cols(call.y)),
                       call.method, call.normed))

\* a finite mutual information of two different arguments, one of them 1-d
C8_Witness ==
    /\ call.op = "mi"
    /\ call.x # call.y
    /\ call.x.nd = 1
    /\ call.y.nd = 2
    /\ result.t = "return"
    /\ result.v.f = "fin"

\* C9: every public operation ends on a 1-d sample array as it does on the
\* same values given as a single-column matrix.
C9_OneDimensionalAsColumn ==
    /\ (call.op = "entropy" /\ call.data.nd = 1 /\ call.prob = NoProb) =>
          SameOutcome(result, entropy(ExpandDims(call.data), NoProb, call.method,
                                      call.bins, call.errorVal, call.normed))
    /\ (call.op = "symbols_to_prob" /\ call.data.nd = 1) =>
          SameOutcome(result, symbols_to_prob(ExpandDims(call.data), call.bins, call.normed))
    /\ call.op = "mi" =>
          SameOutcome(result, mi(Normalize(call.x, call.y)[1], Normalize(call.x, call.y)[2],
                                 call.bins.x, call.bins.y, call.bins.xy,
                                 call.method, call.normed))
    /\ call.op = "cond_entropy" =>
          SameOutcome(result, cond_entropy(Normalize(call.x, call.y)[1],
                                          Normalize(call.x, call.y)[2],
                                          call.bins.y, call.bins.xy,
                                          call.method, call.normed))

\* C10: entropy(data=X, method='gaussian') of a sample matrix X never fails:
\* it returns -inf when det(X * X^T) is 0 and 0.5*ln((2*pi*e)^D * det) otherwise.
C10_GaussianOfMatrix ==
    (/\ call.op = "entropy"
     /\ call.data.nd = 2
     /\ call.prob = NoProb
     /\ call.method = "gaussian")
    => result = (IF Det(Gram(call.data)) = 0 THEN Return(NegInf)
                 ELSE Return(FinG(Shape1(call.data), Det(Gram(call.data)))))

====
